---- MODULE Spec2Model ----
(***************************************************************************)
(* Model of the Reader base class of opendrift (readers/readers.py):       *)
(* check_arguments, index_of_closest_time and indices_min_max_depth.       *)
(*                                                                         *)
(* Times are integers (seconds on the reader's clock), coordinates and     *)
(* depths are integers.  Array indices are 0-based as in Python; the       *)
(* sequences that hold arrays are 1-based, so element i of an array a is   *)
(* a[i + 1].                                                               *)
(***************************************************************************)
EXTENDS Integers, Sequences, FiniteSets

VARIABLES
    reader,   \* the Reader instance: metadata set by the concrete subclass
    op,       \* the method the caller invokes on the reader
    args,     \* the arguments of that invocation
    pc,       \* "call" before the method has run, "done" after it
    result    \* what the method returned or raised

vars == <<reader, op, args, pc, result>>

----------------------------------------------------------------------------
(* Bounds of the explored inputs *)

MaxVars == 2      \* longest requested list of variables
MaxTime == 3      \* requested times range over 0..MaxTime
MaxCoord == 3     \* x and y of requested points range over 0..MaxCoord
MaxPoints == 2    \* longest array of requested points
MaxDepthArg == 1  \* depth arguments of check_arguments range over 0..MaxDepthArg
MaxStep == 4      \* timeStep of a reader ranges over 1..MaxStep
MaxTimes == 4     \* a reader's time grid has 1..MaxTimes points
MaxLevel == 5     \* depth levels are multiples of 10 m up to 10 * MaxLevel

----------------------------------------------------------------------------
(* Python values *)

\* Python's None, for startTime, endTime and the time argument.
None == -1

\* Value of the result variable before the method has run.
NoResult == [status |-> "none"]

Min(S) == CHOOSE m \in S : \A n \in S : m <= n

Max(S) == CHOOSE m \in S : \A n \in S : m >= n

\* All sequences over S of length lo..hi.
SeqsOf(S, lo, hi) == UNION {[1..n -> S] : n \in lo..hi}

\* A string argument and a list argument (isinstance(variables, str)).
PyStr(s) == [type |-> "str", value |-> s]

PyList(l) == [type |-> "list", value |-> l]

\* A scalar argument and an array argument for x, y and depth.
PyScalar(v) == [type |-> "scalar", value |-> v]

PyArray(a) == [type |-> "array", value |-> a]

\* np.asarray: a scalar becomes a 0-dimensional array holding it, a
\* sequence becomes a 1-dimensional array.
asarray(v) ==
    IF v.type = "scalar"
    THEN [ndim |-> 0, data |-> <<v.value>>]
    ELSE [ndim |-> 1, data |-> v.value]

\* variables = [variables] when a string is given.
AsList(v) == IF v.type = "str" THEN <<v.value>> ELSE v.value

\* variable in self.variables
InCatalog(variable, catalog) ==
    \E i \in 1..Len(catalog) : catalog[i] = variable

\* Indices (0-based, ascending) of the points flagged by the condition of
\* np.where in check_arguments.
RECURSIVE WhereFrom(_, _, _, _)
WhereFrom(r, xs, ys, i) ==
    IF i > Len(xs) THEN <<>>
    ELSE LET flagged == \/ xs[i] < r.xmin
                        \/ xs[i] > r.xmax
                        \/ ys[i] < r.xmin
                        \/ ys[i] > r.ymax
         IN  (IF flagged THEN <<i - 1>> ELSE <<>>) \o WhereFrom(r, xs, ys, i + 1)

OutsideIndices(r, xs, ys) == WhereFrom(r, xs, ys, 1)

Raise(exc, msg) == [status |-> "raise", exc |-> exc, msg |-> msg]

\* Positions (1-based) of the requested variables the catalog lacks.
Unavailable(variables, catalog) ==
    {i \in 1..Len(variables) : ~ InCatalog(variables[i], catalog)}

\* Variant of FirstUnavailable that keeps scanning and reports the last
\* unavailable variable.
LastUnavailable(variables, catalog) ==
    variables[Max(Unavailable(variables, catalog))]

\* The variable at which the loop over the requested variables raises.
FirstUnavailable(variables, catalog) ==
    variables[Min(Unavailable(variables, catalog))]

\* Variant of CheckArguments that tests the spatial domain before the
\* time coverage.
CheckArgumentsDomainFirst(r, a, nonzero0d) ==
    LET time == IF a.time = None THEN r.startTime ELSE a.time
        variables == AsList(a.variables)
        x == asarray(a.x)
        y == asarray(a.y)
        depth == asarray(a.depth)
        outside == OutsideIndices(r, x.data, y.data)
    IN  IF Unavailable(variables, r.variables) # {}
        THEN Raise("ValueError",
                   [text |-> "Variable not available",
                    variable |-> FirstUnavailable(variables, r.variables),
                    available |-> r.variables])
        ELSE IF x.ndim = 0 /\ nonzero0d = "raise"
        THEN Raise("ValueError",
                   [text |-> "Calling nonzero on 0d arrays is not allowed"])
        ELSE IF x.ndim = 0
        THEN Raise("TypeError", [text |-> "len() of unsized object"])
        ELSE IF Len(outside) = Len(x.data)
        THEN Raise("ValueError",
                   [text |-> "All particles are outside domain of reader",
                    name |-> r.name])
        ELSE IF r.startTime # None /\ time < r.startTime
        THEN Raise("ValueError",
                   [text |-> "Requested time is before first available time",
                    time |-> time, bound |-> r.startTime])
        ELSE IF r.endTime # None /\ time = None
        THEN Raise("TypeError",
                   [text |-> "'>' not supported between NoneType and datetime"])
        ELSE IF r.endTime # None /\ time > r.endTime
        THEN Raise("ValueError",
                   [text |-> "Requested time is after last available time",
                    time |-> time, bound |-> r.endTime])
        ELSE [status |-> "return", variables |-> variables, time |-> time,
              x |-> x, y |-> y, depth |-> depth, outside |-> outside]

\* Reader.check_arguments(variables, time, x, y, depth).  nonzero0d is how
\* the installed numpy treats np.where on a 0-dimensional condition:
\* "flat" (treated as one element) or "raise".
CheckArguments(r, a, nonzero0d) ==
    LET time == IF a.time = None THEN r.startTime ELSE a.time
        variables == AsList(a.variables)
        x == asarray(a.x)
        y == asarray(a.y)
        depth == asarray(a.depth)
        outside == OutsideIndices(r, x.data, y.data)
    IN  IF Unavailable(variables, r.variables) # {}
        THEN Raise("ValueError",
                   [text |-> "Variable not available",
                    variable |-> FirstUnavailable(variables, r.variables),
                    available |-> r.variables])
        ELSE IF r.startTime # None /\ time < r.startTime
        THEN Raise("ValueError",
                   [text |-> "Requested time is before first available time",
                    time |-> time, bound |-> r.startTime])
        ELSE IF r.endTime # None /\ time = None
        THEN Raise("TypeError",
                   [text |-> "'>' not supported between NoneType and datetime"])
        ELSE IF r.endTime # None /\ time > r.endTime
        THEN Raise("ValueError",
                   [text |-> "Requested time is after last available time",
                    time |-> time, bound |-> r.endTime])
        ELSE IF x.ndim = 0 /\ nonzero0d = "raise"
        THEN Raise("ValueError",
                   [text |-> "Calling nonzero on 0d arrays is not allowed"])
        ELSE IF x.ndim = 0
        THEN Raise("TypeError", [text |-> "len() of unsized object"])
        ELSE IF Len(outside) = Len(x.data)
        THEN Raise("ValueError",
                   [text |-> "All particles are outside domain of reader",
                    name |-> r.name])
        ELSE [status |-> "return", variables |-> variables, time |-> time,
              x |-> x, y |-> y, depth |-> depth, outside |-> outside]

\* int(n / d) for d > 0: the quotient truncated, without round().
Truncate(n, d) == IF n >= 0 THEN n \div d ELSE -((-n) \div d)

\* int(round(float(n) / float(d))) for d > 0, with Python 3's round():
\* to the nearest integer, a tie to the even one.
PyRound(n, d) ==
    LET q == n \div d
        rem == n - q * d
    IN  IF 2 * rem < d THEN q
        ELSE IF 2 * rem > d THEN q + 1
        ELSE IF q % 2 = 0 THEN q ELSE q + 1

\* seq[indx] in Python: a negative index counts from the end.
PyGetItem(seq, indx) ==
    IF indx >= Len(seq) \/ indx < -Len(seq)
    THEN Raise("IndexError", [text |-> "index out of range"])
    ELSE [status |-> "item",
          value |-> seq[(IF indx < 0 THEN indx + Len(seq) ELSE indx) + 1]]

\* Reader.index_of_closest_time(requestedTime)
IndexOfClosestTime(r, requestedTime) ==
    LET indx == PyRound(requestedTime - r.startTime, r.timeStep)
        item == PyGetItem(r.times, indx)
    IN  IF item.status = "raise" THEN item
        ELSE [status |-> "return", indx |-> indx, nearestTime |-> item.value]

\* ndarray.argmin() of a boolean array: the first index (0-based) holding
\* the smallest value, False before True.
ArgMin(b) ==
    IF \E i \in 1..Len(b) : ~ b[i]
    THEN Min({i \in 1..Len(b) : ~ b[i]}) - 1
    ELSE 0

\* ndarray.argmax() of a boolean array: the first index (0-based) holding
\* the largest value.
ArgMax(b) ==
    IF \E i \in 1..Len(b) : b[i]
    THEN Min({i \in 1..Len(b) : b[i]}) - 1
    ELSE 0

\* depths.min() and depths.max() of a non-empty array.
ArrayMin(a) == Min({a[i] : i \in 1..Len(a)})

ArrayMax(a) == Max({a[i] : i \in 1..Len(a)})

\* Reader.indices_min_max_depth(depths)
IndicesMinMaxDepth(r, depths) ==
    LET minIndex == ArgMin([i \in 1..Len(r.depths) |->
                               r.depths[i] <= ArrayMin(depths)]) - 1
        maxIndex == ArgMax([i \in 1..Len(r.depths) |->
                               r.depths[i] >= ArrayMax(depths)])
    IN  [status |-> "return", minIndex |-> minIndex, maxIndex |-> maxIndex]

----------------------------------------------------------------------------
(* Readers and requests *)

Names == {"x_wind", "y_wind", "sea_water_temperature"}

Catalogs == {<<"x_wind", "y_wind">>, <<"x_wind">>}

\* A reader whose subclass has set every attribute; the specifications
\* below vary the attributes the invoked method reads.
BaseReader ==
    [name |-> "reader", variables |-> <<"x_wind", "y_wind">>,
     startTime |-> None, endTime |-> None, timeStep |-> 1, times |-> <<>>,
     xmin |-> 0, xmax |-> MaxCoord, ymin |-> 0, ymax |-> MaxCoord,
     depths |-> <<0>>]

\* Bounding boxes with a margin of requestable coordinates on every side.
Boxes ==
    {b \in [xmin : 1..(MaxCoord - 1), xmax : 1..(MaxCoord - 1),
            ymin : 1..(MaxCoord - 1), ymax : 1..(MaxCoord - 1)] :
        b.xmin <= b.xmax /\ b.ymin <= b.ymax}

CoverageReader(catalog, startTime, endTime, box) ==
    [BaseReader EXCEPT !.variables = catalog,
                       !.startTime = startTime, !.endTime = endTime,
                       !.xmin = box.xmin, !.xmax = box.xmax,
                       !.ymin = box.ymin, !.ymax = box.ymax]

VariableRequests ==
    {PyStr(n) : n \in Names} \cup {PyList(l) : l \in SeqsOf(Names, 0, MaxVars)}

TimeRequests == {None} \cup 0..MaxTime

Coords == 0..MaxCoord

\* A single point given as scalars, at a depth in D.
ScalarPoints(D) ==
    {[x |-> PyScalar(px), y |-> PyScalar(py), depth |-> PyScalar(d)] :
        px \in Coords, py \in Coords, d \in D}

\* n points given as arrays of equal length, at depths in D.
ArrayPoints(n, D) ==
    {[x |-> PyArray(xs), y |-> PyArray(ys), depth |-> PyArray(ds)] :
        xs \in [1..n -> Coords], ys \in [1..n -> Coords], ds \in [1..n -> D]}

CheckArgs(v, t, p) ==
    [variables |-> v, time |-> t, x |-> p.x, y |-> p.y, depth |-> p.depth]

check_arguments ==
    /\ pc = "call"
    /\ op = "check_arguments"
    /\ \E nonzero0d \in {"flat", "raise"} :
          result' = CheckArguments(reader, args, nonzero0d)
    /\ pc' = "done"
    /\ UNCHANGED <<reader, op, args>>

NextArgs == check_arguments

----------------------------------------------------------------------------
(* SpecArgs: every variable request and every time against every catalog   *)
(* and time coverage, for one requested point (scalar or array of one) and *)
(* the bounding boxes whose upper corner is (MaxCoord - 1, MaxCoord - 1).  *)

InitArgs ==
    /\ reader \in {CoverageReader(c, s, e, b) :
                      c \in Catalogs, s \in {None, 1}, e \in {None, 2},
                      b \in {bb \in Boxes : bb.xmax = MaxCoord - 1
                                            /\ bb.ymax = MaxCoord - 1}}
    /\ op = "check_arguments"
    /\ args \in {CheckArgs(v, t, p) :
                    v \in VariableRequests, t \in TimeRequests,
                    p \in ScalarPoints({0}) \cup ArrayPoints(1, {0})}
    /\ pc = "call"
    /\ result = NoResult

SpecArgs == InitArgs /\ [][NextArgs]_vars

----------------------------------------------------------------------------
(* SpecDomain: every array of up to MaxPoints points against every         *)
(* bounding box, for requests of available variables.                      *)

InitDomain ==
    /\ reader \in {CoverageReader(<<"x_wind", "y_wind">>, s, e, b) :
                      s \in {None, 1}, e \in {None, 2}, b \in Boxes}
    /\ op = "check_arguments"
    /\ args \in {CheckArgs(v, t, p) :
                    v \in {PyStr("x_wind"), PyList(<<"x_wind", "y_wind">>)},
                    t \in TimeRequests,
                    p \in ScalarPoints(0..MaxDepthArg)
                          \cup UNION {ArrayPoints(n, 0..MaxDepthArg) :
                                         n \in 0..MaxPoints}}
    /\ pc = "call"
    /\ result = NoResult

SpecDomain == InitDomain /\ [][NextArgs]_vars

----------------------------------------------------------------------------
(* SpecTime: index_of_closest_time on every regular time grid              *)

\* times[i] = startTime + i * timeStep for 0 <= i < n
RegularTimes(startTime, timeStep, n) ==
    [i \in 1..n |-> startTime + (i - 1) * timeStep]

TimeGridReader(startTime, timeStep, n) ==
    [BaseReader EXCEPT !.startTime = startTime,
                       !.endTime = startTime + (n - 1) * timeStep,
                       !.timeStep = timeStep,
                       !.times = RegularTimes(startTime, timeStep, n)]

InitTime ==
    /\ reader \in {TimeGridReader(s, d, n) :
                      s \in 0..MaxTime, d \in 1..MaxStep, n \in 1..MaxTimes}
    /\ op = "index_of_closest_time"
    /\ args \in [requestedTime : 0..(MaxTime + MaxStep * MaxTimes)]
    /\ pc = "call"
    /\ result = NoResult

index_of_closest_time ==
    /\ pc = "call"
    /\ op = "index_of_closest_time"
    /\ result' = IndexOfClosestTime(reader, args.requestedTime)
    /\ pc' = "done"
    /\ UNCHANGED <<reader, op, args>>

NextTime == index_of_closest_time

SpecTime == InitTime /\ [][NextTime]_vars

----------------------------------------------------------------------------
(* SpecDepth: indices_min_max_depth on every increasing depth axis         *)

\* The depth levels a reader may have: 0, 10, ..., 10 * MaxLevel metres.
LevelValues == {10 * i : i \in 0..MaxLevel}

\* The elements of the non-empty set S of integers in increasing order.
RECURSIVE Sorted(_)
Sorted(S) == IF S = {} THEN <<>> ELSE <<Min(S)>> \o Sorted(S \ {Min(S)})

DepthReader(levels) == [BaseReader EXCEPT !.depths = Sorted(levels)]

InitDepth ==
    /\ reader \in {DepthReader(L) : L \in SUBSET LevelValues \ {{}}}
    /\ op = "indices_min_max_depth"
    /\ args \in [depths : SeqsOf(0..(10 * MaxLevel + 10), 1, 2)]
    /\ pc = "call"
    /\ result = NoResult

indices_min_max_depth ==
    /\ pc = "call"
    /\ op = "indices_min_max_depth"
    /\ result' = IndicesMinMaxDepth(reader, args.depths)
    /\ pc' = "done"
    /\ UNCHANGED <<reader, op, args>>

NextDepth == indices_min_max_depth

SpecDepth == InitDepth /\ [][NextDepth]_vars

----------------------------------------------------------------------------
(* The reader under any of the calls above *)

Init == InitArgs \/ InitDomain \/ InitTime \/ InitDepth

Next == check_arguments \/ index_of_closest_time \/ indices_min_max_depth

Spec == Init /\ [][Next]_vars

----------------------------------------------------------------------------
(* The request and the outcome, in the terms of the specification *)

Called(method) == pc = "done" /\ op = method

\* The requested variables in request order.
Requested ==
    IF args.variables.type = "str"
    THEN <<args.variables.value>>
    ELSE args.variables.value

Supported(variable) ==
    variable \in {reader.variables[i] : i \in 1..Len(reader.variables)}

AllSupported == \A i \in 1..Len(Requested) : Supported(Requested[i])

GivenAsArrays == args.x.type = "array"

PointCount == IF GivenAsArrays THEN Len(args.x.value) ELSE 1

PointX(i) == IF GivenAsArrays THEN args.x.value[i] ELSE args.x.value

PointY(i) == IF GivenAsArrays THEN args.y.value[i] ELSE args.y.value

\* Point i (1-based) lies outside [xmin,xmax] x [ymin,ymax].
PointOutside(i) ==
    \/ PointX(i) < reader.xmin
    \/ PointX(i) > reader.xmax
    \/ PointY(i) < reader.ymin
    \/ PointY(i) > reader.ymax

SomePointOutside == \E i \in 1..PointCount : PointOutside(i)

SomePointInside == \E i \in 1..PointCount : ~ PointOutside(i)

TimeBefore ==
    args.time # None /\ reader.startTime # None /\ args.time < reader.startTime

TimeAfter ==
    args.time # None /\ reader.endTime # None /\ args.time > reader.endTime

\* The time the request is answered for: startTime when none is given.
EffectiveTime == IF args.time = None THEN reader.startTime ELSE args.time

\* The effective time is a time within the reader's coverage.
TimeValid ==
    /\ reader.startTime = None \/ EffectiveTime >= reader.startTime
    /\ reader.endTime = None
       \/ (EffectiveTime # None /\ EffectiveTime <= reader.endTime)

Returned == result.status = "return"

RaisedValueError(text) ==
    /\ result.status = "raise"
    /\ result.exc = "ValueError"
    /\ result.msg.text = text

RaisedVariable == RaisedValueError("Variable not available")

RaisedTimeBefore ==
    RaisedValueError("Requested time is before first available time")

RaisedTimeAfter ==
    RaisedValueError("Requested time is after last available time")

RaisedAllOutside ==
    RaisedValueError("All particles are outside domain of reader")

----------------------------------------------------------------------------
(* Claims about check_arguments *)

\* C1: when a request given as arrays has some points outside the bounding
\* box and at least one inside (variables supported, time valid),
\* check_arguments returns, and the returned outside indices are exactly
\* the indices i with x[i] < xmin, x[i] > xmax, y[i] < ymin or y[i] > ymax.
C1_OutsideFlagsExactlyOutsidePoints ==
    (/\ Called("check_arguments")
     /\ GivenAsArrays
     /\ AllSupported
     /\ TimeValid
     /\ SomePointOutside
     /\ SomePointInside)
    => /\ Returned
       /\ {result.outside[k] : k \in 1..Len(result.outside)}
              = {i - 1 : i \in {j \in 1..PointCount : PointOutside(j)}}

\* C2: when every point of a request given as arrays lies outside the
\* bounding box (variables supported, time valid), check_arguments raises
\* the all-outside error naming the reader.
C2_AllOutsideRaises ==
    (/\ Called("check_arguments")
     /\ GivenAsArrays
     /\ AllSupported
     /\ TimeValid
     /\ \A i \in 1..PointCount : PointOutside(i))
    => /\ RaisedAllOutside
       /\ result.msg.name = reader.name

\* C3: when some requested variable is not in the reader's catalog,
\* check_arguments raises the variable error, whose message names the
\* first such variable in request order and holds the whole catalog.
C3_UnsupportedVariableRaises ==
    (Called("check_arguments") /\ ~ AllSupported)
    => /\ RaisedVariable
       /\ \E i \in 1..Len(Requested) :
             /\ ~ Supported(Requested[i])
             /\ \A j \in 1..(i - 1) : Supported(Requested[j])
             /\ result.msg.variable = Requested[i]
       /\ result.msg.available = reader.variables

\* C3 witness: a list of two different unsupported variables, at a time
\* after the coverage, was refused naming the first of the two.
C3_Witness ==
    /\ Called("check_arguments")
    /\ Len(Requested) = 2
    /\ ~ Supported(Requested[1])
    /\ ~ Supported(Requested[2])
    /\ Requested[1] # Requested[2]
    /\ TimeAfter
    /\ RaisedVariable
    /\ result.msg.variable = Requested[1]

\* C4: for a request given as arrays with supported variables, a time and
\* at least one point inside the bounding box: a time before startTime or
\* after endTime raises the time error, and a time within the coverage
\* makes check_arguments return that time unchanged.
C4_TimeCoverageDecides ==
    (/\ Called("check_arguments")
     /\ GivenAsArrays
     /\ AllSupported
     /\ SomePointInside
     /\ args.time # None)
    => /\ TimeBefore => RaisedTimeBefore
       /\ (~ TimeBefore /\ TimeAfter) => RaisedTimeAfter
       /\ (~ TimeBefore /\ ~ TimeAfter)
             => (Returned /\ result.time = args.time)

\* C8: a request of one supported variable given as a string, for one
\* point given as scalars inside the bounding box, at a valid time,
\* returns: the variable as a one-element list, x, y and depth as arrays
\* holding the point, no outside index, and startTime when no time was
\* given.
C8_ScalarRequestNormalised ==
    (/\ Called("check_arguments")
     /\ args.variables.type = "str"
     /\ AllSupported
     /\ ~ GivenAsArrays
     /\ ~ PointOutside(1)
     /\ TimeValid)
    => /\ Returned
       /\ result.variables = <<args.variables.value>>
       /\ result.x.data = <<args.x.value>>
       /\ result.y.data = <<args.y.value>>
       /\ result.depth.data = <<args.depth.value>>
       /\ result.outside = <<>>
       /\ args.time = None => result.time = reader.startTime

\* C10: check_arguments reports the first failing check in the order
\* variables, startTime, endTime, domain: an unsupported variable raises
\* the variable error whatever the time and the points are, and with
\* supported variables a time outside the coverage raises the time error
\* (before startTime first, then after endTime) wherever the points are.
C10_FirstFailingCheckReported ==
    Called("check_arguments")
    => /\ ~ AllSupported => RaisedVariable
       /\ (AllSupported /\ TimeBefore) => RaisedTimeBefore
       /\ (AllSupported /\ ~ TimeBefore /\ TimeAfter) => RaisedTimeAfter

\* C10 witness: a request of supported variables whose time is before the
\* coverage and whose points are all outside the bounding box was refused
\* with the time error.
C10_Witness ==
    /\ Called("check_arguments")
    /\ AllSupported
    /\ TimeBefore
    /\ \A i \in 1..PointCount : PointOutside(i)
    /\ RaisedTimeBefore

----------------------------------------------------------------------------
(* Claims about index_of_closest_time *)

Abs(n) == IF n < 0 THEN -n ELSE n

LastTime == reader.times[Len(reader.times)]

\* C5: on a regular grid, for startTime <= requestedTime <= times[last],
\* index_of_closest_time returns (k, times[k]) with k a valid index of a
\* grid point nearest to requestedTime, and k itself when requestedTime is
\* startTime + k * timeStep.
C5_ClosestTimeOnRegularGrid ==
    (/\ Called("index_of_closest_time")
     /\ reader.startTime <= args.requestedTime
     /\ args.requestedTime <= LastTime)
    => /\ Returned
       /\ result.indx \in 0..(Len(reader.times) - 1)
       /\ result.nearestTime = reader.times[result.indx + 1]
       /\ \A j \in 1..Len(reader.times) :
             Abs(result.nearestTime - args.requestedTime)
                 <= Abs(reader.times[j] - args.requestedTime)
       /\ \A k \in 0..(Len(reader.times) - 1) :
             args.requestedTime = reader.startTime + k * reader.timeStep
                 => result.indx = k

\* C5 witness: a requested time strictly between two grid points and
\* nearer to the later one was answered with the later one.
C5_Witness ==
    /\ Called("index_of_closest_time")
    /\ reader.startTime < args.requestedTime
    /\ args.requestedTime < LastTime
    /\ 2 * ((args.requestedTime - reader.startTime) % reader.timeStep)
           > reader.timeStep
    /\ Returned
    /\ result.indx
           = (args.requestedTime - reader.startTime) \div reader.timeStep + 1

----------------------------------------------------------------------------
(* Claims about indices_min_max_depth *)

LastLevel == Len(reader.depths) - 1

RequestedMin == ArrayMin(args.depths)

RequestedMax == ArrayMax(args.depths)

\* Indices (0-based) of the levels that are <= the smallest requested depth.
LevelsAtOrAbove == {i \in 0..LastLevel : reader.depths[i + 1] <= RequestedMin}

\* C6: on an increasing depth axis, for a non-empty request,
\* indices_min_max_depth returns minIndex <= maxIndex.
C6_MinIndexAtMostMaxIndex ==
    Called("indices_min_max_depth") => result.minIndex <= result.maxIndex

\* C7: when depths[0] <= min(requested) and max(requested) <= depths[last],
\* indices_min_max_depth returns indices within 0..last with
\* depths[minIndex] <= min(requested), depths[maxIndex] >= max(requested),
\* and maxIndex the first index whose level is >= max(requested).
C7_CoveredRequestIsBracketed ==
    (/\ Called("indices_min_max_depth")
     /\ reader.depths[1] <= RequestedMin
     /\ RequestedMax <= reader.depths[LastLevel + 1])
    => /\ result.minIndex \in 0..LastLevel
       /\ result.maxIndex \in 0..LastLevel
       /\ reader.depths[result.minIndex + 1] <= RequestedMin
       /\ reader.depths[result.maxIndex + 1] >= RequestedMax
       /\ \A i \in 0..(result.maxIndex - 1) : reader.depths[i + 1] < RequestedMax

\* C9: minIndex is the largest index i with depths[i] <= min(requested),
\* and 0 when there is none; it is always within 0..last.
C9_MinIndexIsLastLevelAtOrAbove ==
    Called("indices_min_max_depth")
    => /\ result.minIndex \in 0..LastLevel
       /\ result.minIndex
              = (IF LevelsAtOrAbove = {} THEN 0 ELSE Max(LevelsAtOrAbove))

====
